---------------------------- MODULE Spec2Model ----------------------------
(***************************************************************************)
(* GitFind: the Early Signal Score (lib/score.ts), the nightly pipeline    *)
(* (scripts/pipeline.ts, lib/enrichment.ts, lib/hn.ts, lib/queries.ts),    *)
(* the light snapshot job and the GH Archive ingestion.                    *)
(*                                                                         *)
(* Numbers.  JavaScript numbers are modelled in fixed point:               *)
(*   - a sub-score (0..100) is kept in hundredths of a point (0..10000);   *)
(*   - the weighted sum is kept in ten-thousandths of a point;             *)
(*   - Math.log is computed by Log2Fix, a binary logarithm with FracBits   *)
(*     fractional bits (only ratios of logarithms are used by the code,    *)
(*     so the base does not matter).                                       *)
(***************************************************************************)
EXTENDS Integers, Sequences, FiniteSets, TLC

VARIABLES
    \* ---- score.ts : one call of calculateScore ----
    inputs,          \* the ScoreInputs record handed to calculateScore
    result,          \* NoResult, or the ScoreResult returned
    \* ---- the persistent store (supabase-schema.sql) ----
    repos,             \* github_id -> None | Some(row); the row id is the github_id
    enrichments,       \* repo_id -> None | Some(row)   (UNIQUE repo_id)
    repo_snapshots,    \* the rows of repo_snapshots, in insertion order
    tool_contributions,\* the rows of tool_contributions
    lastSnapshotWrite, \* None | Some(the latest upsert into repo_snapshots: who
                       \* made it, the row offered, whether its key was taken)
    \* ---- the clock ----
    today,             \* the current UTC date, as a day number
    \* ---- pipeline.ts : Phase 2 of main() and processRepo ----
    passes,            \* processRepo passes the runs so far were started with
    queue,             \* None when no run is active, else Some(the candidates
                       \* of `discovered` not yet processed)
    pending,           \* None | Some(snapshot row processRepo is about to upsert)
    lastPass,          \* None between passes, else what the pass under way did
    faultBudget,       \* how many upstream requests of one pass may fail
    \* ---- the light snapshot job ----
    lightRuns,         \* light snapshot jobs started so far
    lightJob,          \* None | Some([todayStr, allRepos, snapshots7d]) of the running job
    \* ---- pipeline.ts : Phase 1 of main() (discovery) ----
    strategy,          \* how many discovery strategies have run
    discovered,        \* the values of the Map `discovered`, in insertion order
    returned,          \* what each strategy run so far returned, or that it threw
    totalErrors,       \* the discovery errors counted
    \* ---- the GH Archive ingestion ----
    ingest,            \* "idle" | "running" | "aggregated" | "done" | "aborted"
    hour,              \* the hour bucket the loop is at
    starCounts,        \* repository id -> WatchEvents counted (0: not in the Map)
    lastHour,          \* None | Some(what the latest hour met and did)
    qualified,         \* the repository ids kept by the 5+ stars filter
    streamed,          \* per streamed hour, the lines the for-await loop was handed
    \* ---- the GH Archive ingestion : pushToGunzip and the gunzip stream ----
    pusher,            \* "idle" | "reading" | "waitDrain" | "done"
    buffered,          \* the sizes of the chunks written to gunzip and not yet inflated
    needDrain,         \* whether a write returned false and 'drain' is still due
    chunksLeft,        \* the chunks the response body still holds
    drains,            \* the 'drain' events of the current hour
    \* ---- the light snapshot job : the timing of its fetch loop ----
    githubToken,       \* whether GITHUB_TOKEN is set in the environment
    fetchPhase,        \* "idle" | "loop" | "done"
    clock,             \* the time, in seconds
    loopAt,            \* the index i of the fetch loop
    requests,          \* requests issued so far
    notBefore,         \* reset + margin asked for by the latest response, or 0
    lastIter,          \* None | Some(what the latest iteration met and did)
    \* ---- lib/queries.ts : one call of getStarVelocity or getCommitFrequency ----
    call,              \* None, or what the call under evaluation meets upstream
    answer,            \* None | Some(what the call returned and what it cost)
    \* ---- the tool scan (tool-scan.ts) ----
    scanRun,           \* None | Some(the run under way: its flag, month and items)
    scanLog            \* what the runs did with each repository, in order

scoreVars == <<inputs, result>>
storeVars == <<repos, enrichments, repo_snapshots, tool_contributions,
               lastSnapshotWrite>>
pipeVars  == <<passes, queue, pending, lastPass, faultBudget>>
lightVars == <<lightRuns, lightJob>>
coreVars  == <<scoreVars, storeVars, today, pipeVars, lightVars>>
discVars  == <<strategy, discovered, returned, totalErrors>>
streamVars == <<pusher, buffered, needDrain, chunksLeft, drains>>
archVars  == <<ingest, hour, starCounts, lastHour, qualified, streamed, streamVars>>
rateVars  == <<githubToken, fetchPhase, clock, loopAt, requests, notBefore, lastIter>>
callVars  == <<call, answer>>
scanVars  == <<scanRun, scanLog>>
libVars   == <<callVars, scanVars>>
extVars   == <<discVars, archVars, rateVars, libVars>>
vars == <<coreVars, extVars>>

-----------------------------------------------------------------------------
(* Generic helpers *)

Min(a, b) == IF a <= b THEN a ELSE b
Max(a, b) == IF a >= b THEN a ELSE b
Abs(x) == IF x < 0 THEN -x ELSE x

\* An optional number (number | undefined): <<>> is undefined, <<v>> is v.
None == <<>>
Some(v) == <<v>>
IsNone(o) == o = <<>>
Val(o) == o[1]

RECURSIVE Pow2(_)
Pow2(k) == IF k = 0 THEN 1 ELSE 2 * Pow2(k - 1)

-----------------------------------------------------------------------------
(* Math.log in fixed point *)

\* Mantissa precision and number of fractional bits of the logarithm.
MantBits == 14
FracBits == 12
MantOne == Pow2(MantBits)

RECURSIVE FloorLog2(_)
FloorLog2(n) == IF n < 2 THEN 0 ELSE 1 + FloorLog2(n \div 2)

\* The fractional bits of log2 of the mantissa m (fixed point, MantOne is 1,
\* m in [1,2)), by repeated squaring; acc is the logarithm accumulated so far.
RECURSIVE Log2Frac(_, _, _)
Log2Frac(m, acc, k) ==
    IF k = 0 THEN acc
    ELSE LET sq == (m * m) \div MantOne
         IN  IF sq >= 2 * MantOne
             THEN Log2Frac(sq \div 2, 2 * acc + 1, k - 1)
             ELSE Log2Frac(sq, 2 * acc, k - 1)

\* log2(n) * 2^FracBits for every integer 1 <= n < 2^MantBits, tabulated.
Log2Tab ==
    [ n \in 1 .. (MantOne - 1) |->
        Log2Frac(n * Pow2(MantBits - FloorLog2(n)), FloorLog2(n), FracBits) ]

Log2Fix(n) == Log2Tab[n]

\* Math.round on a value kept in 1/unit steps.
Round(x, unit) == (2 * x + unit) \div (2 * unit)

-----------------------------------------------------------------------------
(* score.ts *)

\* One point, in the unit sub-scores are kept in (hundredths).
Centi == 100

\* A normalisation smoothed by one more unit: log(value + 2) / log(scale + 2),
\* without the guard for values that are not positive.
logNormaliseSmoothed(num, den, scale) ==
    LET normalised ==
            ((Log2Fix(Max(num, 0) + 2 * den) - Log2Fix(den)) * 100 * Centi)
                \div Log2Fix(scale + 2)
    IN  Min(100 * Centi, Max(0, normalised))

\* logNormalise(value, scale) for value = num/den (den > 0), in hundredths.
logNormalise(num, den, scale) ==
    IF num <= 0 THEN 0
    ELSE LET normalised ==
                 ((Log2Fix(num + den) - Log2Fix(den)) * 100 * Centi)
                     \div Log2Fix(scale + 1)
         IN  Min(100 * Centi, Max(0, normalised))

\* linearNormalise(value, max) for value = num/den and max = maxNum/maxDen.
linearNormalise(num, den, maxNum, maxDen) ==
    IF maxNum <= 0 THEN 0
    ELSE Min(100 * Centi,
             Max(0, (num * maxDen * 100 * Centi) \div (den * maxNum)))

calcStarVelocity(stars_7d) == logNormalise(stars_7d, 1, 1000)

\* The ratio taken the other way round: stars per contributor.
calcStarsPerContributor(contributors, stars) ==
    IF contributors <= 0 THEN 0 ELSE linearNormalise(stars, contributors, 10000, 1)

\* linearNormalise(contributors / stars, 0.2)
calcContributorRatio(contributors, stars) ==
    IF stars <= 0 THEN 0 ELSE linearNormalise(contributors, stars, 1, 5)

\* linearNormalise(forks / stars, 0.4)
calcForkVelocity(forks, stars) ==
    IF stars <= 0 THEN 0 ELSE linearNormalise(forks, stars, 2, 5)

\* weighted = hn_mentions_7d * 2 + hn_mentions_30d * 0.5, kept in halves
calcMentionVelocity(hn_mentions_7d, hn_mentions_30d) ==
    logNormalise(hn_mentions_7d * 4 + hn_mentions_30d, 2, 50)

calcCommitFrequency(commits_30d) == logNormalise(commits_30d, 1, 50)

\* An acceleration that rewards any change of pace, up or down.
calcAccelerationAnyChange(current_7d, prev_7d) ==
    IF IsNone(current_7d) \/ IsNone(prev_7d) THEN 0
    ELSE IF Val(prev_7d) <= 0 \/ Val(current_7d) <= 0 THEN 0
    ELSE logNormalise(Abs(Val(current_7d) - Val(prev_7d)), Val(prev_7d), 4)

\* ratio = current_7d / prev_7d; logNormalise(ratio - 1, 4)
calcAcceleration(current_7d, prev_7d) ==
    IF IsNone(current_7d) \/ IsNone(prev_7d) THEN 0
    ELSE IF Val(prev_7d) <= 0 \/ Val(current_7d) <= 0 THEN 0
    ELSE IF Val(current_7d) <= Val(prev_7d) THEN 0
    ELSE logNormalise(Val(current_7d) - Val(prev_7d), Val(prev_7d), 4)

\* A penalty whose star-spike rules ignore commit activity.
calcManipulationPenaltyNoCommits(in) ==
    LET spike == IF in.stars_7d > 500 THEN 20
                 ELSE IF in.stars_7d > 200 THEN 15
                 ELSE IF in.stars_7d > 100 THEN 10
                 ELSE 0
        fans  == IF in.stars > 1000 /\ in.contributors < 2 THEN 10
                 ELSE IF in.stars > 500 /\ in.contributors < 2 THEN 5
                 ELSE 0
    IN  Min(30, spike + fans)

\* A filter whose lowest spike rule asks for two commits instead of one.
calcManipulationPenaltyStrict(in) ==
    LET spike == IF in.stars_7d > 500 /\ in.commits_30d < 5 THEN 20
                 ELSE IF in.stars_7d > 200 /\ in.commits_30d < 2 THEN 15
                 ELSE IF in.stars_7d > 100 /\ in.commits_30d < 2 THEN 10
                 ELSE 0
        fans  == IF in.stars > 1000 /\ in.contributors < 2 THEN 10
                 ELSE IF in.stars > 500 /\ in.contributors < 2 THEN 5
                 ELSE 0
    IN  Min(30, spike + fans)

\* A penalty in which the five rules form one chain, so only the first
\* matching rule counts.
calcManipulationPenaltyFirstRuleOnly(in) ==
    IF in.stars_7d > 500 /\ in.commits_30d < 5 THEN 20
    ELSE IF in.stars_7d > 200 /\ in.commits_30d < 2 THEN 15
    ELSE IF in.stars_7d > 100 /\ in.commits_30d = 0 THEN 10
    ELSE IF in.stars > 1000 /\ in.contributors < 2 THEN 10
    ELSE IF in.stars > 500 /\ in.contributors < 2 THEN 5
    ELSE 0

calcManipulationPenalty(in) ==
    LET spike == IF in.stars_7d > 500 /\ in.commits_30d < 5 THEN 20
                 ELSE IF in.stars_7d > 200 /\ in.commits_30d < 2 THEN 15
                 ELSE IF in.stars_7d > 100 /\ in.commits_30d = 0 THEN 10
                 ELSE 0
        fans  == IF in.stars > 1000 /\ in.contributors < 2 THEN 10
                 ELSE IF in.stars > 500 /\ in.contributors < 2 THEN 5
                 ELSE 0
    IN  Min(30, spike + fans)

\* The weighted sum of score.ts:161-168; the weights are percentages, so the
\* result is in ten-thousandths of a point.
rawScore(in) ==
      calcStarVelocity(in.stars_7d) * 25
    + calcContributorRatio(in.contributors, in.stars) * 20
    + calcForkVelocity(in.forks, in.stars) * 10
    + calcMentionVelocity(in.hn_mentions_7d, in.hn_mentions_30d) * 15
    + calcCommitFrequency(in.commits_30d) * 10
    + calcAcceleration(Some(in.stars_7d), in.stars_7d_prev) * 10
    + calcAcceleration(in.forks_7d, in.forks_7d_prev) * 10

\* A final score computed without the clamp to 0..100.
finalScoreUnclamped(raw, penalty) ==
    Round(raw - penalty * 100 * Centi, 100 * Centi)

\* Math.round(Math.min(100, Math.max(0, raw_score - manipulation_penalty)))
finalScore(raw, penalty) ==
    Round(Min(100 * 100 * Centi, Max(0, raw - penalty * 100 * Centi)),
          100 * Centi)

calculateScore(in) ==
    LET raw     == rawScore(in)
        penalty == calcManipulationPenalty(in)
        final   == finalScore(raw, penalty)
    IN  [ score |-> final,
          breakdown |->
            [ star_velocity_score     |-> Round(calcStarVelocity(in.stars_7d), Centi),
              contributor_ratio_score |-> Round(calcContributorRatio(in.contributors, in.stars), Centi),
              fork_velocity_score     |-> Round(calcForkVelocity(in.forks, in.stars), Centi),
              mention_velocity_score  |-> Round(calcMentionVelocity(in.hn_mentions_7d, in.hn_mentions_30d), Centi),
              commit_frequency_score  |-> Round(calcCommitFrequency(in.commits_30d), Centi),
              star_acceleration_score |-> Round(calcAcceleration(Some(in.stars_7d), in.stars_7d_prev), Centi),
              fork_acceleration_score |-> Round(calcAcceleration(in.forks_7d, in.forks_7d_prev), Centi),
              manipulation_penalty    |-> penalty,
              raw_score               |-> Round(raw, 100 * Centi),
              final_score             |-> final ] ]

-----------------------------------------------------------------------------
(* The persistent store *)

\* Repositories known upstream (github_id); a row's id stands for its UUID.
MaxId == 2
Ids == 1 .. MaxId

\* Discovery and the archive ingestion at rest.
DiscoveryIdle ==
    /\ strategy = 0 /\ discovered = <<>> /\ returned = <<>> /\ totalErrors = 0

ArchiveIdle ==
    /\ ingest = "idle" /\ hour = 0 /\ starCounts = [id \in Ids |-> 0]
    /\ lastHour = None /\ qualified = {} /\ streamed = <<>>
    /\ pusher = "idle" /\ buffered = <<>> /\ needDrain = FALSE
    /\ chunksLeft = 0 /\ drains = 0

\* No library call under evaluation; the tool scan at rest.
CallIdle == call = None /\ answer = None
ScanIdle == scanRun = None /\ scanLog = <<>>

\* The clock of the light snapshot job starts here.
ClockStart == 100

\* The fetch loop of the light snapshot job at rest.
FetchLoopIdle ==
    /\ fetchPhase = "idle" /\ clock = ClockStart /\ loopAt = 0 /\ requests = 0
    /\ notBefore = 0 /\ lastIter = None

\* .eq('repo_id', r).eq('snapshot_date', d).maybeSingle()
SnapshotAt(table, repo_id, date) ==
    LET hits == { i \in 1 .. Len(table) :
                    table[i].repo_id = repo_id /\ table[i].snapshot_date = date }
    IN  IF hits = {} THEN None
        ELSE Some(table[CHOOSE i \in hits : \A j \in hits : i <= j])

\* The record kept of an upsert of `row` into the snapshot table `table`.
SnapshotWrite(who, table, row) ==
    Some([ by |-> who, row |-> row,
           taken |-> SnapshotAt(table, row.repo_id, row.snapshot_date) # None ])

\* An insert that ignores the UNIQUE (repo_id, snapshot_date) constraint.
insertAlways(table, row) == Append(table, row)

\* A plain upsert: ON CONFLICT (repo_id, snapshot_date) DO UPDATE.
upsertOverwrite(table, row) ==
    IF SnapshotAt(table, row.repo_id, row.snapshot_date) = None
    THEN Append(table, row)
    ELSE [ i \in 1 .. Len(table) |->
             IF table[i].repo_id = row.repo_id
                /\ table[i].snapshot_date = row.snapshot_date
             THEN row ELSE table[i] ]

\* upsert(row, { onConflict: 'repo_id,snapshot_date', ignoreDuplicates: true })
\* on a table with UNIQUE (repo_id, snapshot_date): ON CONFLICT DO NOTHING.
upsertIgnoreDuplicates(table, row) ==
    IF SnapshotAt(table, row.repo_id, row.snapshot_date) = None
    THEN Append(table, row)
    ELSE table

-----------------------------------------------------------------------------
(* Specification of one calculateScore call on a non-negative record *)

StarsVals        == {0, 80, 600, 9000}
Stars7dVals      == {0, 40, 101, 201, 600, 3000}
ContributorsVals == {0, 1, 2, 450}
ForksVals        == {0, 2700}
Mentions7dVals   == {0, 3, 25}
Mentions30dVals  == {0, 25}
CommitsVals      == {0, 1, 4, 80}
StarsPrevVals    == {None, Some(-5), Some(0), Some(40)}
Forks7dVals      == {None, Some(40), Some(200)}
ForksPrevVals    == {None, Some(40), Some(100)}

ScoreInputs ==
    [ stars : StarsVals, stars_7d : Stars7dVals, stars_30d : {0},
      contributors : ContributorsVals, forks : ForksVals,
      hn_mentions_7d : Mentions7dVals, hn_mentions_30d : Mentions30dVals,
      commits_30d : CommitsVals,
      stars_7d_prev : StarsPrevVals, forks_7d : Forks7dVals,
      forks_7d_prev : ForksPrevVals ]

\* The early-rocket record of score.test.ts and a record at the edge of the
\* manipulation filter.
EarlyRocket ==
    [ stars |-> 9000, stars_7d |-> 3000, stars_30d |-> 8000, contributors |-> 450,
      forks |-> 2700, hn_mentions_7d |-> 12, hn_mentions_30d |-> 25,
      commits_30d |-> 80,
      stars_7d_prev |-> None, forks_7d |-> None, forks_7d_prev |-> None ]

ModerateRepo ==
    [ stars |-> 9000, stars_7d |-> 200, stars_30d |-> 400, contributors |-> 2,
      forks |-> 120, hn_mentions_7d |-> 8, hn_mentions_30d |-> 20,
      commits_30d |-> 1,
      stars_7d_prev |-> None, forks_7d |-> None, forks_7d_prev |-> None ]

Scenarios == { EarlyRocket, ModerateRepo }

NoResult == [score |-> -1]

\* The store, clock, pipeline and jobs at rest (they take no part in SpecScore).
StoreIdle ==
    /\ repos = [id \in Ids |-> None] /\ enrichments = [id \in Ids |-> None]
    /\ repo_snapshots = <<>>
    /\ tool_contributions = {} /\ lastSnapshotWrite = None /\ today = 0
    /\ passes = 0 /\ queue = None /\ pending = None
    /\ lastPass = None /\ faultBudget = 0
    /\ lightRuns = 0 /\ lightJob = None
    /\ DiscoveryIdle /\ ArchiveIdle /\ FetchLoopIdle /\ githubToken = TRUE
    /\ ScanIdle

InitScore ==
    /\ inputs \in ScoreInputs \cup Scenarios
    /\ result = NoResult
    /\ StoreIdle /\ CallIdle

Calculate ==
    /\ result = NoResult
    /\ result' = calculateScore(inputs)
    /\ UNCHANGED <<extVars, inputs, storeVars, today, pipeVars, lightVars>>

NextScore == Calculate

SpecScore == InitScore /\ [][NextScore]_vars


-----------------------------------------------------------------------------
(* pipeline.ts : processRepo and Phase 2 of main() *)

\* What the search API reports for a repository (mapSearchItem keeps it).
MetaVals == { [stars |-> 80, forks |-> 30], [stars |-> 9000, forks |-> 2700] }
Items == { [github_id |-> id, stars |-> m.stars, forks |-> m.forks] :
             id \in Ids, m \in MetaVals }

\* The values of a Map<number, Repo>, in insertion order: no id twice.
DiscoveredMaps ==
    { d \in UNION { [1 .. n -> Items] : n \in 0 .. MaxId } :
        \A i, j \in 1 .. Len(d) : i # j => d[i].github_id # d[j].github_id }

\* What the five sub-fetches of processRepo meet upstream.
StarVelocityFetches == { [ok |-> FALSE, stars_7d |-> 0, stars_30d |-> 0],
                         [ok |-> TRUE, stars_7d |-> 600, stars_30d |-> 600] }
CountFetches(vals)  == { [ok |-> FALSE, n |-> 0] } \cup { [ok |-> TRUE, n |-> v] : v \in vals }
ContributorFetches  == CountFetches({1, 2})
CommitFetches       == CountFetches({80})
ReadmeFetches       == CountFetches({1})
HNFetches(v)        == { [kind |-> "throw", n |-> 0], [kind |-> "notok", n |-> 0],
                         [kind |-> "ok", n |-> v] }

\* getStarVelocity: zeros for a repository without stars or when a fetch throws.
getStarVelocity(totalStars, f) ==
    IF totalStars = 0 \/ ~f.ok THEN [stars_7d |-> 0, stars_30d |-> 0]
    ELSE [stars_7d |-> f.stars_7d, stars_30d |-> f.stars_30d]

\* getContributorCount, getCommitFrequency: 0 when the fetch fails or throws.
getContributorCount(f) == IF f.ok THEN f.n ELSE 0
getCommitFrequency(f)  == IF f.ok THEN f.n ELSE 0

\* getReadme: null (None) on any error.
getReadme(f) == IF f.ok THEN Some(f.n) ELSE None

\* fetchHNMentions: 0 when the response is not ok; a transport error is not caught.
fetchHNMentions(f) == IF f.kind = "ok" THEN f.n ELSE 0

\* getHNMentions: Promise.all of the two fetches; rejects when either rejects.
getHNMentions(f7, f30) ==
    [ threw       |-> f7.kind = "throw" \/ f30.kind = "throw",
      mentions_7d |-> fetchHNMentions(f7),
      mentions_30d|-> fetchHNMentions(f30) ]

\* The sub-fetches that failed upstream in a pass.
FailedFetches(totalStars, f) ==
       (IF totalStars # 0 /\ ~f.sv.ok THEN {"stars"} ELSE {})
  \cup (IF ~f.cc.ok THEN {"contributors"} ELSE {})
  \cup (IF ~f.cf.ok THEN {"commits"} ELSE {})
  \cup (IF f.h7.kind # "ok" \/ f.h30.kind # "ok" THEN {"hn"} ELSE {})
  \cup (IF ~f.rd.ok THEN {"readme"} ELSE {})

\* The upstream requests of one pass of which at most MaxFailures fail.
MaxFailures == 1

FailureCount(f) ==
      (IF f.sv.ok THEN 0 ELSE 1) + (IF f.cc.ok THEN 0 ELSE 1)
    + (IF f.cf.ok THEN 0 ELSE 1) + (IF f.h7.kind = "ok" THEN 0 ELSE 1)
    + (IF f.h30.kind = "ok" THEN 0 ELSE 1) + (IF f.rd.ok THEN 0 ELSE 1)

FetchOutcomes ==
    [ budget \in 0 .. MaxFailures |->
        { f \in [ sv : StarVelocityFetches, cc : ContributorFetches,
                  cf : CommitFetches, h7 : HNFetches(3), h30 : HNFetches(25),
                  rd : ReadmeFetches ] :
            FailureCount(f) <= budget } ]

\* The ScoreInputs processRepo builds (pipeline.ts:136-153).
PassInputs(c, starVelocity, contributorCount, commitFrequency, hnMentions, snap7d, snap14d) ==
    LET forks_7d      == IF snap7d # None THEN Some(c.forks - Val(snap7d).forks) ELSE None
        forks_7d_prev == IF snap7d # None /\ snap14d # None
                         THEN Some(Val(snap7d).forks - Val(snap14d).forks) ELSE None
        stars_7d_prev == IF snap7d # None THEN Some(Val(snap7d).stars_7d) ELSE None
    IN  [ stars |-> c.stars,
          stars_7d |-> starVelocity.stars_7d,
          stars_30d |-> starVelocity.stars_30d,
          contributors |-> contributorCount,
          forks |-> c.forks,
          hn_mentions_7d |-> hnMentions.mentions_7d,
          hn_mentions_30d |-> hnMentions.mentions_30d,
          commits_30d |-> commitFrequency,
          stars_7d_prev |-> stars_7d_prev,
          forks_7d |-> IF forks_7d # None /\ Val(forks_7d) >= 0 THEN forks_7d ELSE None,
          forks_7d_prev |-> IF forks_7d_prev # None /\ Val(forks_7d_prev) >= 0
                            THEN forks_7d_prev ELSE None ]

\* A staleness test that re-enriches from a difference of 10 on.
needsEnrichmentFrom10(existing, score) ==
    existing = None \/ Abs(Val(existing).early_signal_score - score) >= 10

\* !existing || Math.abs(existing.early_signal_score - score) > 10
needsEnrichment(existing, score) ==
    existing = None \/ Abs(Val(existing).early_signal_score - score) > 10

\* enrichRepo(repoId, repo, score, breakdown) with forceRefresh = false, on the
\* enrichments table: the table afterwards, whether Claude was called and
\* whether the call (or parsing its answer) threw.
enrichRepo(table, repoId, facts, score, breakdown, forceRefresh, llmOk) ==
    IF ~forceRefresh /\ table[repoId] # None
    THEN [ table |-> table, llm |-> FALSE, threw |-> FALSE ]
    ELSE IF ~llmOk
    THEN [ table |-> table, llm |-> TRUE, threw |-> TRUE ]
    ELSE [ table |-> [ table EXCEPT ![repoId] =
                         Some([ summary |-> facts,
                                early_signal_score |-> score,
                                score_breakdown |-> breakdown ]) ],
           llm |-> TRUE, threw |-> FALSE ]

\* .update({ early_signal_score, score_breakdown, scored_at }).eq('repo_id', repoId)
updateScore(table, repoId, score, breakdown) ==
    IF table[repoId] = None THEN table
    ELSE [ table EXCEPT ![repoId] =
             Some([ Val(table[repoId]) EXCEPT !.early_signal_score = score,
                                              !.score_breakdown = breakdown ]) ]

\* An ISO date string, kept as its month and its day within the month; a
\* prefix of it is the sequence of the parts it still holds.
\* date.slice(0, 10) is 'YYYY-MM-DD', toISOString().slice(0, 7) is 'YYYY-MM'.
slice10(date) == <<date.month, date.day>>
slice7(date) == <<date.month>>

\* The dates of the commits getCoAuthoredByTools may find a tool in.
CommitDates == { [month |-> 6, day |-> 14], [month |-> 6, day |-> 2],
                 [month |-> 5, day |-> 30] }

\* What getCoAuthoredByTools may report for a repository: nothing, or a tool
\* under the key date.slice(0, 10) of a commit.
ToolScans ==
    { {}, { [ tool_name |-> "Claude Code",
              month |-> slice10([month |-> 6, day |-> 14]), commit_count |-> 1 ] } }

\* upsert(..., { onConflict: 'repo_id,tool_name,month' })
upsertTools(table, repoId, found) ==
    { r \in table : ~ \E t \in found :
          r.repo_id = repoId /\ r.tool_name = t.tool_name /\ r.month = t.month }
    \cup { [ repo_id |-> repoId, tool_name |-> t.tool_name, month |-> t.month,
             commit_count |-> t.commit_count ] : t \in found }

NoScore == [ score |-> -1 ]

\* The snapshot row of pipeline.ts:214-221.
SnapshotRow(c, starVelocity) ==
    [ repo_id |-> c.github_id, snapshot_date |-> today, stars |-> c.stars,
      forks |-> c.forks, stars_7d |-> starVelocity.stars_7d ]

\* A check of the repository upsert that lets every answer pass.
upsertFailedIgnored(repoError) == FALSE

\* if (repoError || !upsertedRepo) { logError(...); return }
upsertFailed(repoError) == repoError

\* processRepo up to and including the tool contributions (pipeline.ts:71-211);
\* when it gets that far, the snapshot row of pipeline.ts:214-223 is left pending.
ProcessRepo ==
    /\ queue # None /\ Val(queue) # <<>> /\ lastPass = None
    /\ \E f \in FetchOutcomes[faultBudget], repoError \in BOOLEAN, llmOk \in BOOLEAN,
          found \in ToolScans :
        LET c       == Head(Val(queue))
            repoId  == c.github_id
            starVelocity     == getStarVelocity(c.stars, f.sv)
            contributorCount == getContributorCount(f.cc)
            commitFrequency  == getCommitFrequency(f.cf)
            hnMentions       == getHNMentions(f.h7, f.h30)
            snap7d  == SnapshotAt(repo_snapshots, repoId, today - 7)
            snap14d == SnapshotAt(repo_snapshots, repoId, today - 14)
            in      == PassInputs(c, starVelocity, contributorCount, commitFrequency,
                                  hnMentions, snap7d, snap14d)
            scored  == calculateScore(in)
            existing == enrichments[repoId]
            needs   == needsEnrichment(existing, scored.score)
            facts   == [ stars |-> c.stars, contributors |-> contributorCount,
                         readme |-> getReadme(f.rd) # None ]
            enr     == enrichRepo(enrichments, repoId, facts, scored.score,
                                  scored.breakdown, FALSE, llmOk)
            pass    == [ github_id |-> c.github_id,
                         failed |-> FailedFetches(c.stars, f),
                         repoError |-> ~hnMentions.threw /\ repoError,
                         outcome |-> "fetch_threw", metrics |-> None,
                         result |-> NoScore, existing |-> None, needs |-> FALSE,
                         llm |-> FALSE ]
            row     == [ stars |-> c.stars, forks |-> c.forks,
                         contributors |-> contributorCount ]
        IN  IF hnMentions.threw
            THEN \* Promise.all rejects: the catch of pipeline.ts:227 logs and returns
                 /\ lastPass' = Some(pass)
                 /\ UNCHANGED <<storeVars, pending>>
            ELSE IF upsertFailed(repoError)
            THEN \* pipeline.ts:109-112
                 /\ lastPass' = Some([pass EXCEPT !.outcome = "upsert_failed"])
                 /\ UNCHANGED <<storeVars, pending>>
            ELSE /\ repos' = [repos EXCEPT ![c.github_id] = Some(row)]
                 /\ lastPass' = Some([ pass EXCEPT
                        !.outcome = IF needs /\ enr.threw THEN "enrich_threw" ELSE "scored",
                        !.metrics = Some(in), !.result = scored,
                        !.existing = existing, !.needs = needs,
                        !.llm = needs /\ enr.llm ])
                 /\ enrichments' =
                        IF needs THEN enr.table
                        ELSE updateScore(enrichments, repoId, scored.score,
                                         scored.breakdown)
                 /\ IF needs /\ enr.threw
                    THEN UNCHANGED <<tool_contributions, pending>>
                    ELSE /\ tool_contributions' =
                                upsertTools(tool_contributions, repoId, found)
                         /\ pending' = Some(SnapshotRow(c, starVelocity))
                 /\ UNCHANGED <<repo_snapshots, lastSnapshotWrite>>
    /\ UNCHANGED <<extVars, scoreVars, today, passes, queue, faultBudget, lightVars>>

\* The end of a pass: the snapshot upsert of pipeline.ts:213-226 when processRepo
\* got that far (an error of the store is logged), then back in the loop of
\* pipeline.ts:301-305 for the next candidate.
FinishPass ==
    /\ lastPass # None
    /\ IF pending = None THEN UNCHANGED <<repo_snapshots, lastSnapshotWrite>>
       ELSE \E snapError \in BOOLEAN :
              IF snapError THEN UNCHANGED <<repo_snapshots, lastSnapshotWrite>>
              ELSE /\ repo_snapshots' =
                         upsertIgnoreDuplicates(repo_snapshots, Val(pending))
                   /\ lastSnapshotWrite' =
                         SnapshotWrite("pipeline", repo_snapshots, Val(pending))
    /\ pending' = None
    /\ lastPass' = None
    /\ queue' = Some(Tail(Val(queue)))
    /\ UNCHANGED <<extVars, scoreVars, repos, enrichments, tool_contributions, today,
                   passes, faultBudget, lightVars>>

\* A pipeline run reaches Phase 2 with the candidates discovery produced; the
\* runs process MaxPasses candidates in total.
MaxPasses == 2

StartRun ==
    /\ queue = None
    /\ \E d \in DiscoveredMaps :
         /\ d # <<>> /\ passes + Len(d) <= MaxPasses
         /\ queue' = Some(d)
         /\ passes' = passes + Len(d)
    /\ UNCHANGED <<extVars, scoreVars, storeVars, today, pending, lastPass, faultBudget,
                   lightVars>>

\* The loop of pipeline.ts:301-305 has processed every candidate.
FinishRun ==
    /\ queue = Some(<<>>)
    /\ queue' = None
    /\ UNCHANGED <<extVars, scoreVars, storeVars, today, passes, pending, lastPass,
                   faultBudget, lightVars>>

-----------------------------------------------------------------------------
(* The light snapshot job (snapshot-light.ts) *)

MaxLightRuns == 1

\* The repositories of the store, ordered by id.
RECURSIVE IdsFrom(_, _)
IdsFrom(table, id) ==
    IF id > MaxId THEN <<>>
    ELSE (IF table[id] # None THEN <<id>> ELSE <<>>) \o IdsFrom(table, id + 1)

\* main() up to the fetch loop: the date, the repositories and the stars of
\* their snapshots of seven days ago are read once.
StartLight ==
    /\ lightJob = None /\ lightRuns < MaxLightRuns
    /\ lightRuns' = lightRuns + 1
    /\ lightJob' =
         IF IdsFrom(repos, 1) = <<>> THEN None
         ELSE Some([ todayStr |-> today,
                     allRepos |-> IdsFrom(repos, 1),
                     snapshots7d |->
                       [ id \in Ids |->
                           LET s == SnapshotAt(repo_snapshots, id, today - 7)
                           IN  IF s = None THEN None ELSE Some(Val(s).stars) ] ])
    /\ UNCHANGED <<extVars, scoreVars, storeVars, today, pipeVars>>

\* What GET /repos/{owner}/{name} answers in one iteration of the loop.
LightResponses ==
    { [kind |-> k, stars |-> 0, forks |-> 0] : k \in {"threw", "not_found", "error"} }
    \cup { [kind |-> "ok", stars |-> m.stars, forks |-> m.forks] : m \in MetaVals }

\* One iteration of the loop of snapshot-light.ts:124-229 that moves on to the
\* next repository (a rate-limited iteration that retries the same repository
\* leaves the state as it is).
LightIteration ==
    /\ lightJob # None /\ Val(lightJob).allRepos # <<>>
    /\ \E resp \in LightResponses, snapError \in BOOLEAN :
        LET job == Val(lightJob)
            id  == Head(job.allRepos)
            stars7dAgo == job.snapshots7d[id]
            stars_7d   == IF stars7dAgo # None THEN resp.stars - Val(stars7dAgo) ELSE 0
            row == [ repo_id |-> id, snapshot_date |-> job.todayStr,
                     stars |-> resp.stars, forks |-> resp.forks, stars_7d |-> stars_7d ]
        IN  /\ lightJob' = Some([job EXCEPT !.allRepos = Tail(job.allRepos)])
            /\ IF resp.kind = "ok"
               THEN /\ repos' = [ repos EXCEPT ![id] =
                                    IF repos[id] = None THEN None
                                    ELSE Some([ Val(repos[id]) EXCEPT
                                                  !.stars = resp.stars,
                                                  !.forks = resp.forks ]) ]
                    /\ IF snapError
                       THEN UNCHANGED <<repo_snapshots, lastSnapshotWrite>>
                       ELSE /\ repo_snapshots' =
                                  upsertIgnoreDuplicates(repo_snapshots, row)
                            /\ lastSnapshotWrite' =
                                  SnapshotWrite("light", repo_snapshots, row)
               ELSE UNCHANGED <<repos, repo_snapshots, lastSnapshotWrite>>
    /\ UNCHANGED <<extVars, scoreVars, enrichments, tool_contributions, today, pipeVars, lightRuns>>

FinishLight ==
    /\ lightJob # None /\ Val(lightJob).allRepos = <<>>
    /\ lightJob' = None
    /\ UNCHANGED <<extVars, scoreVars, storeVars, today, pipeVars, lightRuns>>

-----------------------------------------------------------------------------
(* The clock *)

MaxDay == 7
DaySteps == {7}

Tick ==
    /\ \E d \in DaySteps : today + d <= MaxDay /\ today' = today + d
    /\ UNCHANGED <<extVars, scoreVars, storeVars, pipeVars, lightVars>>

-----------------------------------------------------------------------------
(* The pipeline's second phase on one day, with failing upstream requests *)

PipelineIdle ==
    /\ inputs = CHOOSE in \in ScoreInputs : TRUE
    /\ result = NoResult
    /\ repos = [id \in Ids |-> None] /\ enrichments = [id \in Ids |-> None]
    /\ repo_snapshots = <<>> /\ tool_contributions = {}
    /\ lastSnapshotWrite = None /\ today = 0
    /\ passes = 0 /\ queue = None /\ pending = None /\ lastPass = None
    /\ lightRuns = 0 /\ lightJob = None
    /\ DiscoveryIdle /\ ArchiveIdle /\ FetchLoopIdle /\ CallIdle /\ ScanIdle

Init ==
    /\ PipelineIdle
    /\ githubToken = TRUE
    /\ faultBudget = MaxFailures

Next ==
    \/ StartRun
    \/ ProcessRepo
    \/ FinishPass
    \/ FinishRun

Spec == Init /\ [][Next]_vars

-----------------------------------------------------------------------------
(* The pipeline's second phase, the light snapshot job and the clock, with an
   upstream that answers every request of a pass *)

InitSnapshots ==
    /\ PipelineIdle
    /\ githubToken = TRUE
    /\ faultBudget = 0

NextSnapshots ==
    \/ StartRun
    \/ ProcessRepo
    \/ FinishPass
    \/ FinishRun
    \/ StartLight
    \/ LightIteration
    \/ FinishLight
    \/ Tick

SpecSnapshots == InitSnapshots /\ [][NextSnapshots]_vars

-----------------------------------------------------------------------------
(* pipeline.ts : Phase 1 of main(), discovery *)

\* The categories searched, in the order of the loop; the model runs the
\* first NumCategories of them.
CATEGORY_SLUGS ==
    << "ai-ml", "developer-tools", "security", "data-analytics",
       "web-frameworks", "infrastructure-devops", "mobile",
       "open-source-utilities" >>
NumCategories == 2
\* Search requests one strategy makes (3, 6 and 3 in the source).
MaxQueries == 2
\* searchReposByCategory returns the top 30 by star count.
CategoryCap == 30

\* The strategies in execution order: the category searches, then the
\* mid-tier search, then the newborn search.
StrategyOrder ==
    SubSeq(CATEGORY_SLUGS, 1, NumCategories) \o << "mid-tier", "newborn" >>
NumStrategies == Len(StrategyOrder)

\* What one search request meets: githubFetch throws, or data.items.
SearchResponses ==
    { [ok |-> FALSE, items |-> <<>>] }
        \cup { [ok |-> TRUE, items |-> l] : l \in DiscoveredMaps }

\* for (const item of data.items) if (!seen.has(item.id)) { seen.add; repos.push }
RECURSIVE collectItems(_, _)
collectItems(found, items) ==
    IF items = <<>> THEN found
    ELSE collectItems(
             IF \E i \in 1 .. Len(found) : found[i].github_id = Head(items).github_id
             THEN found ELSE Append(found, Head(items)),
             Tail(items))

\* The loop over the queries of one strategy: a githubFetch that throws ends
\* the strategy with that exception.
RECURSIVE collectQueries(_, _)
collectQueries(responses, found) ==
    IF responses = <<>> THEN [threw |-> FALSE, repos |-> found]
    ELSE IF ~Head(responses).ok THEN [threw |-> TRUE, repos |-> <<>>]
    ELSE collectQueries(Tail(responses), collectItems(found, Head(responses).items))

\* repos.sort((a, b) => b.stars - a.stars): a stable sort, most stars first.
RECURSIVE sortByStars(_)
sortByStars(found) ==
    IF found = <<>> THEN <<>>
    ELSE LET rest == sortByStars(Tail(found))
             ahead == { i \in 1 .. Len(rest) : rest[i].stars > Head(found).stars }
             n == Cardinality(ahead)
         IN  SubSeq(rest, 1, n) \o << Head(found) >> \o SubSeq(rest, n + 1, Len(rest))

searchReposByCategory(responses) ==
    LET r == collectQueries(responses, <<>>)
    IN  IF r.threw THEN r
        ELSE [ threw |-> FALSE,
               repos |-> SubSeq(sortByStars(r.repos), 1,
                                Min(CategoryCap, Len(r.repos))) ]

searchTrendingMidTier(responses) == collectQueries(responses, <<>>)

searchNewbornRockets(responses) == collectQueries(responses, <<>>)

\* A merge that lets a later sighting replace the entry (Map.set keeps the
\* position of an existing key).
RECURSIVE mergeLastSeen(_, _)
mergeLastSeen(map, found) ==
    IF found = <<>> THEN map
    ELSE mergeLastSeen(
             IF \E i \in 1 .. Len(map) : map[i].github_id = Head(found).github_id
             THEN [ i \in 1 .. Len(map) |->
                      IF map[i].github_id = Head(found).github_id
                      THEN Head(found) ELSE map[i] ]
             ELSE Append(map, Head(found)),
             Tail(found))

\* for (const repo of repos)
\*   if (!discovered.has(repo.github_id)) discovered.set(repo.github_id, repo)
RECURSIVE mergeDiscovered(_, _)
mergeDiscovered(map, found) ==
    IF found = <<>> THEN map
    ELSE mergeDiscovered(
             IF \E i \in 1 .. Len(map) : map[i].github_id = Head(found).github_id
             THEN map
             ELSE Append(map, Head(found)),
             Tail(found))

\* The ids the requests of one strategy were answered with (by the requests
\* that did not fail).
AnsweredIds(responses) ==
    { id \in Ids : \E q \in DOMAIN responses :
        /\ responses[q].ok
        /\ \E i \in 1 .. Len(responses[q].items) :
               responses[q].items[i].github_id = id }

\* A layer without its try/catch: the exception of the strategy ends discovery.
RunLayerUncaught(name, r, responses) ==
    /\ returned' = Append(returned,
                          [strategy |-> name, threw |-> r.threw, repos |-> r.repos,
                           answered |-> AnsweredIds(responses)])
    /\ IF r.threw
       THEN strategy' = NumStrategies /\ UNCHANGED <<discovered, totalErrors>>
       ELSE /\ discovered' = mergeDiscovered(discovered, r.repos)
            /\ strategy' = strategy + 1
            /\ UNCHANGED totalErrors
    /\ UNCHANGED <<coreVars, libVars, archVars, rateVars>>

\* One layer of discovery: the strategy's result is merged, or its exception
\* is logged and counted.
RunLayer(name, r, responses) ==
    /\ returned' = Append(returned,
                          [strategy |-> name, threw |-> r.threw, repos |-> r.repos,
                           answered |-> AnsweredIds(responses)])
    /\ IF r.threw
       THEN totalErrors' = totalErrors + 1 /\ UNCHANGED discovered
       ELSE discovered' = mergeDiscovered(discovered, r.repos)
            /\ UNCHANGED totalErrors
    /\ strategy' = strategy + 1
    /\ UNCHANGED <<coreVars, libVars, archVars, rateVars>>

\* Layer 1: one iteration of the loop over CATEGORY_SLUGS.
RunCategorySearch ==
    /\ strategy < NumCategories
    /\ \E responses \in [1 .. MaxQueries -> SearchResponses] :
         RunLayer(CATEGORY_SLUGS[strategy + 1], searchReposByCategory(responses),
                  responses)

\* Layer 2.
RunMidTier ==
    /\ strategy = NumCategories
    /\ \E responses \in [1 .. MaxQueries -> SearchResponses] :
         RunLayer("mid-tier", searchTrendingMidTier(responses), responses)

\* Layer 3.
RunNewborn ==
    /\ strategy = NumCategories + 1
    /\ \E responses \in [1 .. MaxQueries -> SearchResponses] :
         RunLayer("newborn", searchNewbornRockets(responses), responses)

\* Phase 2 begins: the loop runs over discovered.values().
BeginProcessing ==
    /\ strategy = NumStrategies /\ queue = None
    /\ queue' = Some(discovered)
    /\ UNCHANGED <<extVars, scoreVars, storeVars, today, passes, pending, lastPass,
                   faultBudget, lightVars>>

InitDiscovery ==
    /\ PipelineIdle
    /\ githubToken = TRUE
    /\ faultBudget = 0

NextDiscovery ==
    \/ RunCategorySearch
    \/ RunMidTier
    \/ RunNewborn
    \/ BeginProcessing

SpecDiscovery == InitDiscovery /\ [][NextDiscovery]_vars

-----------------------------------------------------------------------------
(* The GH Archive ingestion (ingest-gharchive.ts) *)

\* Hour buckets of one day (24 in the source) and lines of one bucket.
NumHours == 3
MaxLines == 2
\* Only repositories with 5+ stars in the day are kept.
QualifyingStars == 5

\* A line of the decompressed dump: not an event (JSON.parse or the access to
\* event.repo throws), an event of another type, or a WatchEvent of a repository.
Lines ==
    { [kind |-> "malformed", repo |-> 0], [kind |-> "other", repo |-> 0] }
        \cup { [kind |-> "WatchEvent", repo |-> id] : id \in Ids }

LineSeqs == UNION { [1 .. n -> Lines] : n \in 0 .. MaxLines }

\* What the download of one hour meets.  A body delivers `lines` and then
\* ends: "eof" (the gzip member is complete), "zero_bytes" (the body has no
\* bytes at all: zlib reports an unexpected end of file), "bad_gzip" (corrupt
\* or truncated data) or "network" (reader.read() rejects in mid-stream).
HourSources ==
    { [fetch |-> f, lines |-> <<>>, ending |-> "none"] :
          f \in {"throws", "http_error", "no_body"} }
        \cup { [fetch |-> "body", lines |-> l, ending |-> e] :
                  l \in LineSeqs, e \in {"eof", "bad_gzip", "network"} }
        \cup { [fetch |-> "body", lines |-> <<>>, ending |-> "zero_bytes"] }

\* The body of the for-await loop, line by line.
RECURSIVE countLines(_, _)
countLines(counts, lines) ==
    IF lines = <<>> THEN counts
    ELSE countLines(
             IF Head(lines).kind = "WatchEvent"
             THEN [counts EXCEPT ![Head(lines).repo] = @ + 1]
             ELSE counts,
             Tail(lines))

\* The gunzip stream ends with an 'error': gunzip.end() on incomplete data,
\* or gunzip.destroy(err) from pushToGunzip.
StreamErrors(src) == src.fetch = "body" /\ src.ending # "eof"

\* main() is called.
StartIngest ==
    /\ ingest = "idle"
    /\ ingest' = "running"
    /\ UNCHANGED <<coreVars, libVars, discVars, rateVars, hour, starCounts, lastHour,
                   qualified, streamed, streamVars>>

\* An hour whose fetch throws, answers with a non-success status or has no
\* body: logged, `continue`.
SkipHour ==
    /\ ingest = "running" /\ hour < NumHours /\ pusher = "idle"
    /\ \E src \in { h \in HourSources : h.fetch # "body" } :
         lastHour' = Some([hour |-> hour, source |-> src, before |-> starCounts])
    /\ hour' = hour + 1
    /\ UNCHANGED <<coreVars, libVars, discVars, rateVars, ingest, starCounts, qualified,
                   streamed, streamVars>>

\* An hour with a body: the lines read are counted.  The for-await loop over
\* the readline interface is inside no try block: an 'error' of the gunzip
\* stream either rejects it, and main() with it, or is an unhandled 'error'
\* event; both end the process (main().catch, process.exit(1)).
StreamHour ==
    /\ ingest = "running" /\ hour < NumHours /\ pusher = "idle"
    /\ \E src \in { h \in HourSources : h.fetch = "body" } :
         /\ lastHour' = Some([hour |-> hour, source |-> src, before |-> starCounts])
         /\ starCounts' = countLines(starCounts, src.lines)
         /\ streamed' = Append(streamed, src.lines)
         /\ IF StreamErrors(src)
            THEN ingest' = "aborted" /\ UNCHANGED hour
            ELSE hour' = hour + 1 /\ UNCHANGED ingest
    /\ UNCHANGED <<coreVars, libVars, discVars, rateVars, qualified, streamVars>>

\* A filter that keeps only repositories with more than the qualifying count.
QualifyAbove ==
    /\ ingest = "running" /\ hour = NumHours /\ pusher = "idle"
    /\ qualified' = { id \in Ids : starCounts[id] > QualifyingStars }
    /\ ingest' = "aggregated"
    /\ UNCHANGED <<coreVars, libVars, discVars, rateVars, hour, starCounts, lastHour,
                   streamed, streamVars>>

\* After the last hour: the 5+ stars filter.
Qualify ==
    /\ ingest = "running" /\ hour = NumHours /\ pusher = "idle"
    /\ qualified' = { id \in Ids : starCounts[id] >= QualifyingStars }
    /\ ingest' = "aggregated"
    /\ UNCHANGED <<coreVars, libVars, discVars, rateVars, hour, starCounts, lastHour,
                   streamed, streamVars>>

InitArchive ==
    /\ PipelineIdle
    /\ githubToken = TRUE
    /\ faultBudget = 0

NextArchive ==
    \/ StartIngest
    \/ SkipHour
    \/ StreamHour
    \/ Qualify

SpecArchive == InitArchive /\ [][NextArchive]_vars

-----------------------------------------------------------------------------
(* gharchive ingestion : pushToGunzip against the gunzip stream, chunk by chunk *)

\* Chunks one response body holds, the sizes a chunk read from the network can
\* have and the highWaterMark of the gunzip stream, in the same unit.
MaxChunks == 2
ChunkSizes == {1, 2}
HighWaterMark == 2

\* The lines the decompressed data of this model is made of.
InflatedLines ==
    { [kind |-> "malformed", repo |-> 0], [kind |-> "WatchEvent", repo |-> 1] }

\* writable.length: the bytes written to gunzip and not yet consumed.
RECURSIVE BufferedLength(_)
BufferedLength(chunks) ==
    IF chunks = <<>> THEN 0 ELSE Head(chunks) + BufferedLength(Tail(chunks))

\* A reader that goes on reading whatever gunzip.write returned.
afterWriteIgnored(accepted) == "reading"

\* if (!gunzip.write(value)) await new Promise(r => gunzip.once('drain', r))
afterWrite(accepted) == IF accepted THEN "reading" ELSE "waitDrain"

\* The fetch of the hour answered with a body: the gunzip stream is created
\* and pushToGunzip() is called.
OpenHour ==
    /\ ingest = "running" /\ hour < NumHours /\ pusher = "idle"
    /\ chunksLeft' \in 0 .. MaxChunks
    /\ pusher' = "reading"
    /\ buffered' = <<>> /\ needDrain' = FALSE /\ drains' = 0
    /\ streamed' = Append(streamed, <<>>)
    /\ UNCHANGED <<coreVars, libVars, discVars, rateVars, ingest, hour, starCounts,
                   lastHour, qualified>>

\* reader.read() delivers a chunk and it is written to gunzip; write returns
\* false when the buffered bytes have reached the highWaterMark.
ReadChunk ==
    /\ ingest = "running" /\ pusher = "reading" /\ chunksLeft > 0
    /\ \E size \in ChunkSizes :
         LET accepted == BufferedLength(buffered) + size < HighWaterMark
         IN  /\ buffered' = Append(buffered, size)
             /\ needDrain' = (needDrain \/ ~accepted)
             /\ pusher' = afterWrite(accepted)
    /\ chunksLeft' = chunksLeft - 1
    /\ UNCHANGED <<coreVars, libVars, discVars, rateVars, ingest, hour, starCounts,
                   lastHour, qualified, streamed, drains>>

\* reader.read() reports done: gunzip.end() and the push stage returns.
ReadEnd ==
    /\ ingest = "running" /\ pusher = "reading" /\ chunksLeft = 0
    /\ pusher' = "done"
    /\ UNCHANGED <<coreVars, libVars, discVars, rateVars, ingest, hour, starCounts,
                   lastHour, qualified, streamed, buffered, needDrain,
                   chunksLeft, drains>>

\* reader.read() rejects: gunzip.destroy(err), the push stage returns and the
\* for-await loop over the lines rejects, which ends the job.
ReadFails ==
    /\ ingest = "running" /\ pusher = "reading" /\ chunksLeft > 0
    /\ pusher' = "done"
    /\ ingest' = "aborted"
    /\ UNCHANGED <<coreVars, libVars, discVars, rateVars, hour, starCounts, lastHour,
                   qualified, streamed, buffered, needDrain, chunksLeft, drains>>

\* gunzip consumes the oldest buffered chunk and the for-await loop counts the
\* line it yields; when the buffer has emptied after a refused write, 'drain'
\* is emitted and a waiting push stage goes on.
Inflate ==
    /\ ingest = "running" /\ pusher # "idle" /\ buffered # <<>>
    /\ buffered' = Tail(buffered)
    /\ IF Tail(buffered) = <<>> /\ needDrain
       THEN /\ needDrain' = FALSE
            /\ drains' = drains + 1
            /\ pusher' = IF pusher = "waitDrain" THEN "reading" ELSE pusher
       ELSE UNCHANGED <<needDrain, drains, pusher>>
    /\ \E line \in InflatedLines :
         /\ starCounts' = countLines(starCounts, <<line>>)
         /\ streamed' = [streamed EXCEPT ![Len(streamed)] = Append(@, line)]
    /\ UNCHANGED <<coreVars, libVars, discVars, rateVars, ingest, hour, lastHour,
                   qualified, chunksLeft>>

\* gunzip meets corrupt or truncated data: its 'error' rejects the for-await
\* loop, which ends the job.
GunzipFails ==
    /\ ingest = "running" /\ pusher # "idle"
    /\ buffered # <<>> \/ pusher = "done"
    /\ ingest' = "aborted"
    /\ UNCHANGED <<coreVars, libVars, discVars, rateVars, hour, starCounts, lastHour,
                   qualified, streamed, streamVars>>

\* The lines are through (gunzip has ended) and `await pushPromise` returns:
\* the loop goes to the next hour.
CloseHour ==
    /\ ingest = "running" /\ pusher = "done" /\ buffered = <<>>
    /\ hour' = hour + 1
    /\ pusher' = "idle"
    /\ UNCHANGED <<coreVars, libVars, discVars, rateVars, ingest, starCounts, lastHour,
                   qualified, streamed, buffered, needDrain, chunksLeft, drains>>

InitBackpressure ==
    /\ PipelineIdle
    /\ githubToken = TRUE
    /\ faultBudget = 0

NextBackpressure ==
    \/ StartIngest
    \/ SkipHour
    \/ OpenHour
    \/ ReadChunk
    \/ ReadEnd
    \/ ReadFails
    \/ Inflate
    \/ GunzipFails
    \/ CloseHour
    \/ Qualify

SpecBackpressure == InitBackpressure /\ [][NextBackpressure]_vars

-----------------------------------------------------------------------------
(* The light snapshot job (snapshot-light.ts): the timing of its fetch loop *)

\* Sleep when remaining drops below this.
RATE_LIMIT_FLOOR == 100
\* parseInt(header || '5000'), parseInt(header || '0') of a missing header.
DefaultRemaining == 5000
\* Repositories loaded from the store, and requests the job may issue.
NumLightRepos == 2
MaxRequests == 4

\* What one GET /repos/{owner}/{name} issued at time t meets: fetch rejects,
\* or a response with a status and the X-RateLimit-Remaining and
\* X-RateLimit-Reset headers (None: the header is missing).
ResetOffsets == {-5, 10}
RateResponses(t) ==
    { [status |-> 0, remaining |-> None, reset |-> None] }
        \cup { [status |-> st, remaining |-> rem, reset |-> rst] :
                  st \in {200, 403, 404},
                  rem \in {None, Some(0), Some(99), Some(100)},
                  rst \in {None} \cup { Some(t + d) : d \in ResetOffsets } }

parseRemaining(header) == IF header = None THEN DefaultRemaining ELSE Val(header)
parseReset(header) == IF header = None THEN 0 ELSE Val(header)

\* The seconds a sleep without the 5 s buffer would take.
sleepSecondsNoBuffer(resetTimestamp, now) == Max(resetTimestamp - now, 10)

\* sleepUntilReset: Math.max(resetTimestamp - now + 5, 10) seconds.
sleepSeconds(resetTimestamp, now) == Max(resetTimestamp - now + 5, 10)

\* One iteration of the loop for a response received at time t: the time at
\* which it ends, the index the loop goes on with and what it counted.
handleResponse(t, i, resp) ==
    LET remaining == parseRemaining(resp.remaining)
        resetAt   == parseReset(resp.reset)
        t1 == IF remaining < RATE_LIMIT_FLOOR /\ resetAt > 0
              THEN t + sleepSeconds(resetAt, t) ELSE t
    IN  IF resp.status = 0
        THEN [at |-> t, next |-> i + 1, outcome |-> "error"]
        ELSE IF resp.status = 404
        THEN [at |-> t1, next |-> i + 1, outcome |-> "deleted"]
        ELSE IF resp.status = 403 /\ remaining = 0 /\ resetAt > 0
        THEN [at |-> t1 + sleepSeconds(resetAt, t1), next |-> i, outcome |-> "retry"]
        ELSE IF resp.status # 200
        THEN [at |-> t1, next |-> i + 1, outcome |-> "error"]
        ELSE [at |-> t1, next |-> i + 1, outcome |-> "updated"]

\* main() up to the loop: the repositories are read from the store.  The
\* token is optional: githubHeaders leaves the Authorization header out.
StartFetchLoop ==
    /\ fetchPhase = "idle"
    /\ fetchPhase' = "loop"
    /\ UNCHANGED <<coreVars, libVars, discVars, archVars, githubToken, clock, loopAt,
                   requests, notBefore, lastIter>>

\* One iteration: the request is issued now; the rest of the iteration takes
\* `later` further seconds.
FetchOne ==
    /\ fetchPhase = "loop" /\ loopAt < NumLightRepos /\ requests < MaxRequests
    /\ \E resp \in RateResponses(clock), later \in {0, 1} :
         LET h == handleResponse(clock, loopAt, resp)
             attempt == IF lastIter # None /\ Val(lastIter).next = loopAt
                           /\ Val(lastIter).index = loopAt
                        THEN Val(lastIter).attempt + 1 ELSE 1
         IN  /\ lastIter' = Some([ index |-> loopAt, attempt |-> attempt,
                                   issuedAt |-> clock, mustWait |-> notBefore,
                                   response |-> resp, next |-> h.next,
                                   outcome |-> h.outcome, doneAt |-> h.at,
                                   authorized |-> githubToken ])
             /\ loopAt' = h.next
             /\ clock' = h.at + later
             /\ notBefore' =
                  IF resp.remaining # None /\ Val(resp.remaining) < RATE_LIMIT_FLOOR
                     /\ resp.reset # None
                  THEN Val(resp.reset) + 5 ELSE 0
    /\ requests' = requests + 1
    /\ UNCHANGED <<coreVars, libVars, discVars, archVars, githubToken, fetchPhase>>

\* The loop is through.
FinishFetchLoop ==
    /\ fetchPhase = "loop" /\ loopAt = NumLightRepos
    /\ fetchPhase' = "done"
    /\ UNCHANGED <<coreVars, libVars, discVars, archVars, githubToken, clock, loopAt,
                   requests, notBefore, lastIter>>

InitFetchLoop ==
    /\ PipelineIdle
    /\ faultBudget = 0
    /\ githubToken \in BOOLEAN

NextFetchLoop ==
    \/ StartFetchLoop
    \/ FetchOne
    \/ FinishFetchLoop

SpecFetchLoop == InitFetchLoop /\ [][NextFetchLoop]_vars

-----------------------------------------------------------------------------
(* The tool scan (tool-scan.ts) *)

\* The runs of the script, all within one calendar month.
MaxScanRuns == 2
ScanToday == [month |-> 6, day |-> 14]

\* The repositories the search answers with, in order (none: the search
\* failed or found nothing).
ScanItems == { <<>>, <<1>>, <<1, 2>> }

\* What getCoAuthoredByTools reports to the scan: nothing (also when it
\* fails), or one tool under the day of a commit.
ScanFinds ==
    { {} } \cup { { [ tool_name |-> "Claude Code", month |-> slice10(d),
                       commit_count |-> 1 ] } : d \in CommitDates }

\* A contribution row keyed by month ('2025-06', the format of the schema).
MonthlyRow(id) ==
    [ repo_id |-> id, tool_name |-> "Claude Code", month |-> slice7(ScanToday),
      commit_count |-> 1 ]

\* The row the scan upserts into repos: stars and forks of the search item.
ScanRepoRow(existing) ==
    IF existing = None THEN [ stars |-> 600, forks |-> 0, contributors |-> 0 ]
    ELSE [ Val(existing) EXCEPT !.stars = 600, !.forks = 0 ]

\* .eq('repo_id', repoId).eq('month', currentMonth).limit(1) has a row
alreadyScanned(table, repoId, currentMonth) ==
    \E r \in table : r.repo_id = repoId /\ r.month = currentMonth

\* main() up to the loops: --force is read, the current month is taken and
\* the search answers.
StartScan ==
    /\ IF scanRun = None THEN TRUE ELSE Val(scanRun).items = <<>>
    /\ (IF scanRun = None THEN 1 ELSE Val(scanRun).run + 1) <= MaxScanRuns
    /\ \E forceRescan \in BOOLEAN, items \in ScanItems :
         scanRun' = Some([ run |-> IF scanRun = None THEN 1 ELSE Val(scanRun).run + 1,
                           forceRescan |-> forceRescan,
                           currentMonth |-> slice7(ScanToday),
                           items |-> items ])
    /\ UNCHANGED <<coreVars, discVars, archVars, rateVars, callVars, scanLog>>

\* The body of the loop over the items for one repository.
ScanRepo ==
    /\ scanRun # None /\ Val(scanRun).items # <<>>
    /\ \E repoError \in BOOLEAN, found \in ScanFinds :
         LET run    == Val(scanRun)
             repoId == Head(run.items)
             entry  == [ run |-> run.run, forceRescan |-> run.forceRescan,
                         repo |-> repoId, did |-> "upsert_failed", recorded |-> {} ]
         IN  IF repoError
             THEN /\ scanLog' = Append(scanLog, entry)
                  /\ UNCHANGED <<repos, tool_contributions>>
             ELSE /\ repos' = [repos EXCEPT ![repoId] = Some(ScanRepoRow(@))]
                  /\ IF ~run.forceRescan
                        /\ alreadyScanned(tool_contributions, repoId, run.currentMonth)
                     THEN /\ scanLog' = Append(scanLog, [entry EXCEPT !.did = "skipped"])
                          /\ UNCHANGED tool_contributions
                     ELSE /\ tool_contributions' =
                                 upsertTools(tool_contributions, repoId, found)
                          /\ scanLog' = Append(scanLog,
                                 [entry EXCEPT !.did = "scanned",
                                               !.recorded = { t.month : t \in found }])
    /\ scanRun' = Some([Val(scanRun) EXCEPT !.items = Tail(@)])
    /\ UNCHANGED <<scoreVars, enrichments, repo_snapshots, lastSnapshotWrite, today,
                   pipeVars, lightVars, discVars, archVars, rateVars, callVars>>

\* The store the scan starts on: empty, or with a repository that has a
\* contribution row keyed by the current month.
InitToolScan ==
    /\ inputs = CHOOSE in \in ScoreInputs : TRUE
    /\ result = NoResult
    /\ \E monthly \in BOOLEAN :
         IF monthly
         THEN /\ repos = [id \in Ids |-> IF id = 1 THEN Some(ScanRepoRow(None)) ELSE None]
              /\ tool_contributions = { MonthlyRow(1) }
         ELSE /\ repos = [id \in Ids |-> None]
              /\ tool_contributions = {}
    /\ enrichments = [id \in Ids |-> None]
    /\ repo_snapshots = <<>> /\ lastSnapshotWrite = None /\ today = 0
    /\ passes = 0 /\ queue = None /\ pending = None
    /\ lastPass = None /\ faultBudget = 0
    /\ lightRuns = 0 /\ lightJob = None
    /\ DiscoveryIdle /\ ArchiveIdle /\ FetchLoopIdle /\ githubToken = TRUE
    /\ CallIdle /\ ScanIdle

NextToolScan ==
    \/ StartScan
    \/ ScanRepo

SpecToolScan == InitToolScan /\ [][NextToolScan]_vars

-----------------------------------------------------------------------------
(* lib/queries.ts : getStarVelocity, page by page *)

\* Stargazers per page (the code asks for 100) and the stars of a repository.
PerPage == 2
MaxStars == 7
\* The windows, in days, and the pages scanned at most.
SevenDays == 7
ThirtyDays == 30
PagesScanned == 3

\* How many days ago a stargazer starred.
Ages == {40, 20, 3}

\* The stargazers of a repository as the API lists them: oldest first.
StargazerLists ==
    { l \in UNION { [1 .. n -> Ages] : n \in 0 .. MaxStars } :
        \A i \in 1 .. Len(l) - 1 : l[i] >= l[i + 1] }

\* A call of getStarVelocity: the star count handed in, the stargazers
\* upstream, and which of the requests it issues throws, if any (0: none).
StarVelocityCalls ==
    { [fn |-> "getStarVelocity", totalStars |-> Len(l), stargazers |-> l,
       failAt |-> k] : l \in StargazerLists, k \in 0 .. PagesScanned }

\* Math.ceil(totalStars / perPage) and Math.max(1, totalPages - 2)
totalPages(totalStars) == (totalStars + PerPage - 1) \div PerPage
startPage(totalStars) == Max(1, totalPages(totalStars) - (PagesScanned - 1))

\* The response to ...stargazers?per_page=..&page=..
pageOf(l, page) ==
    SubSeq(l, (page - 1) * PerPage + 1, Min(page * PerPage, Len(l)))

\* The entries of a page that starred within the last `days` days.
countWithin(data, days) == Cardinality({ i \in 1 .. Len(data) : data[i] <= days })

\* The for loop over the pages, from `page` on, with the counts so far; the
\* request numbered c.failAt throws, which the catch turns into zeros.
RECURSIVE scanPages(_, _, _)
scanPages(c, page, acc) ==
    IF page > totalPages(c.totalStars) THEN acc
    ELSE IF acc.requests + 1 = c.failAt
    THEN [ stars_7d |-> 0, stars_30d |-> 0, requests |-> acc.requests + 1,
           threw |-> TRUE, pages |-> acc.pages ]
    ELSE LET data == pageOf(c.stargazers, page)
             next == [ stars_7d  |-> acc.stars_7d + countWithin(data, SevenDays),
                       stars_30d |-> acc.stars_30d + countWithin(data, ThirtyDays),
                       requests  |-> acc.requests + 1,
                       threw     |-> FALSE,
                       pages     |-> acc.pages \cup {page} ]
         IN  IF data # <<>> /\ data[1] > ThirtyDays
             THEN next
             ELSE scanPages(c, page + 1, next)

\* getStarVelocity with the requests it issues and the pages it read.
starVelocityOf(c) ==
    LET none == [ stars_7d |-> 0, stars_30d |-> 0, requests |-> 0,
                  threw |-> FALSE, pages |-> {} ]
    IN  IF c.totalStars = 0 THEN none
        ELSE scanPages(c, startPage(c.totalStars), none)

GetStarVelocity ==
    /\ call # None /\ answer = None /\ Val(call).fn = "getStarVelocity"
    /\ answer' = Some(starVelocityOf(Val(call)))
    /\ UNCHANGED <<coreVars, discVars, archVars, rateVars, call, scanVars>>

\* Everything but the call under evaluation at rest.
IdleButCall ==
    /\ inputs = CHOOSE in \in ScoreInputs : TRUE
    /\ result = NoResult
    /\ StoreIdle
    /\ answer = None

InitStarVelocity ==
    /\ IdleButCall
    /\ call \in { Some(c) : c \in StarVelocityCalls }

NextStarVelocity == GetStarVelocity

SpecStarVelocity == InitStarVelocity /\ [][NextStarVelocity]_vars

-----------------------------------------------------------------------------
(* lib/queries.ts : getCommitFrequency, request by request *)

\* The delay before the retry, in milliseconds, and the weeks summed.
RetryDelay == 2000
RecentWeeks == 4

\* What response.json() meets: an array of weekly totals, some other JSON
\* value (GitHub answers 202 with an empty object), or no JSON at all.
CommitBodies ==
    { [json |-> "invalid", weeks |-> <<>>], [json |-> "object", weeks |-> <<>>] }
        \cup { [json |-> "array", weeks |-> w] : w \in { <<>>, <<3>>, <<1, 2, 3, 4, 5>> } }

\* What one fetch of .../stats/commit_activity meets; status 0: fetch rejects.
CommitResponses ==
    { [status |-> 0, body |-> [json |-> "invalid", weeks |-> <<>>]] }
        \cup { [status |-> st, body |-> b] : st \in {200, 202, 403, 500}, b \in CommitBodies }

\* A call of getCommitFrequency: what its first request and, if there is one,
\* its second request meet.
CommitFrequencyCalls ==
    { [fn |-> "getCommitFrequency", first |-> a, second |-> b] :
          a \in CommitResponses, b \in CommitResponses }

\* response.ok
responseOk(r) == r.status >= 200 /\ r.status <= 299

RECURSIVE sumTotals(_)
sumTotals(w) == IF w = <<>> THEN 0 ELSE Head(w) + sumTotals(Tail(w))

\* sumRecentCommits: the totals of the last four weeks; 0 for no array.
sumRecentCommits(body) ==
    IF body.json # "array" \/ body.weeks = <<>> THEN 0
    ELSE sumTotals(SubSeq(body.weeks, Max(1, Len(body.weeks) - RecentWeeks + 1),
                          Len(body.weeks)))

\* What a response that is not retried is turned into: 0 when fetch rejected
\* or json() throws (the catch), 0 when it is not ok, the sum otherwise.
commitsOf(r) ==
    IF r.status = 0 \/ ~responseOk(r) \/ r.body.json = "invalid" THEN 0
    ELSE sumRecentCommits(r.body)

\* A getCommitFrequency that treats "still computing" as an answer.
commitFrequencyNoRetry(c) ==
    [ value |-> commitsOf(c.first), requests |-> 1, waited |-> 0 ]

\* getCommitFrequency with the requests it issues and the time it waits.
commitFrequencyOf(c) ==
    IF c.first.status = 202
    THEN [ value |-> commitsOf(c.second), requests |-> 2, waited |-> RetryDelay ]
    ELSE [ value |-> commitsOf(c.first), requests |-> 1, waited |-> 0 ]

GetCommitFrequency ==
    /\ call # None /\ answer = None /\ Val(call).fn = "getCommitFrequency"
    /\ answer' = Some(commitFrequencyOf(Val(call)))
    /\ UNCHANGED <<coreVars, discVars, archVars, rateVars, call, scanVars>>

InitCommitFrequency ==
    /\ IdleButCall
    /\ call \in { Some(c) : c \in CommitFrequencyCalls }

NextCommitFrequency == GetCommitFrequency

SpecCommitFrequency == InitCommitFrequency /\ [][NextCommitFrequency]_vars

-----------------------------------------------------------------------------
(* Properties of calculateScore (SpecScore) *)

\* C1: for every metric record with non-negative inputs, calculateScore
\* returns an integer score with 0 <= score <= 100.
ScoreInRange ==
    result # NoResult => result.score \in 0 .. 100

\* A record whose penalty exceeds its weighted sum has been scored (to 0).
ScoreClampedReached ==
    /\ result # NoResult
    /\ rawScore(inputs) < calcManipulationPenalty(inputs) * 100 * Centi
    /\ result.score = 0

-----------------------------------------------------------------------------
(* Properties of processRepo (Spec) *)

\* A pass got as far as computing the score and deciding on the enrichment.
PassDecided ==
    lastPass # None /\ Val(lastPass).outcome \in {"scored", "enrich_threw"}

\* A pass ran to its end without an exception and without a store error.
PassCompleted ==
    lastPass # None /\ Val(lastPass).outcome = "scored"

PassScore == Val(lastPass).result.score
PassRow   == enrichments[Val(lastPass).github_id]

\* The enrichment record enrichRepo upserts for the pass under way.
PassFullRecord ==
    LET pass == Val(lastPass)
        in   == Val(pass.metrics)
    IN  [ summary |-> [ stars |-> in.stars, contributors |-> in.contributors,
                        readme |-> "readme" \notin pass.failed ],
          early_signal_score |-> pass.result.score,
          score_breakdown |-> pass.result.breakdown ]

\* C2: on the stale path of processRepo (no cached enrichment, or a cached one
\* whose score differs from the new score by more than 10) the LLM is invoked
\* and the full enrichment record of this pass is upserted for the repository.
StalePathReEnriches ==
    (PassCompleted /\ Val(lastPass).needs)
        => (Val(lastPass).llm /\ PassRow = Some(PassFullRecord))

\* C3: after a pass that completes without error for a repository that has an
\* enrichment row, the row's early_signal_score is the score of that pass.
StoredScoreIsCurrent ==
    (PassCompleted /\ PassRow # None)
        => Val(PassRow).early_signal_score = PassScore

\* C4: a pass classifies the cached enrichment as stale exactly when there is
\* no enrichment row or the cached score differs from the new score by more
\* than 10; a row at a distance of 10 or less is fresh.
StaleExactlyWhenFarOrMissing ==
    PassDecided =>
        LET pass == Val(lastPass)
        IN  /\ pass.needs <=>
                  ( \/ pass.existing = None
                    \/ Val(pass.existing).early_signal_score - PassScore > 10
                    \/ PassScore - Val(pass.existing).early_signal_score > 10 )
            /\ ( pass.existing # None
                 /\ Val(pass.existing).early_signal_score - PassScore \in -10 .. 10 )
                   => ~pass.needs

\* A pass found a cached score exactly 10 away from the new one and kept it fresh.
FreshAtDistanceTenReached ==
    /\ PassDecided
    /\ Val(lastPass).existing # None
    /\ Abs(Val(Val(lastPass).existing).early_signal_score - PassScore) = 10
    /\ ~Val(lastPass).needs

\* The metric of a sub-fetch, as the pass handed it to calculateScore, is zero.
MetricIsZero(name, in) ==
    CASE name = "stars"        -> in.stars_7d = 0 /\ in.stars_30d = 0
      [] name = "contributors" -> in.contributors = 0
      [] name = "commits"      -> in.commits_30d = 0
      [] name = "hn"           -> in.hn_mentions_7d = 0 \/ in.hn_mentions_30d = 0
      [] name = "readme"       -> TRUE

\* C10: a failure of any single sub-fetch of a candidate degrades only that
\* metric to zero; the candidate is not dropped because of it.
SubFetchFailureDegrades ==
    (lastPass # None /\ Val(lastPass).failed # {})
        => /\ Val(lastPass).outcome # "fetch_threw"
           /\ Val(lastPass).metrics # None
                => \A name \in Val(lastPass).failed :
                      MetricIsZero(name, Val(Val(lastPass).metrics))

-----------------------------------------------------------------------------
(* Properties of the snapshot table (SpecSnapshots) *)

SnapshotKeysUnique ==
    \A i, j \in 1 .. Len(repo_snapshots) :
        ( /\ repo_snapshots[i].repo_id = repo_snapshots[j].repo_id
          /\ repo_snapshots[i].snapshot_date = repo_snapshots[j].snapshot_date )
            => i = j

\* C6: two pipeline runs on the same day leave exactly one row per
\* (repository, date): the table never holds two rows with one key, and the
\* snapshot upsert of a pass whose key is taken is a no-op.
SameDayRerunIsNoOp ==
    /\ []SnapshotKeysUnique
    /\ [][ ( /\ pending # None /\ pending' = None
             /\ SnapshotAt(repo_snapshots, Val(pending).repo_id,
                           Val(pending).snapshot_date) # None )
             => repo_snapshots' = repo_snapshots ]_vars

\* The pipeline has offered a row for a key that was taken, with other values
\* than the stored row's, and the table holds the stored row.
SameDayRerunReached ==
    /\ lastSnapshotWrite # None
    /\ Val(lastSnapshotWrite).by = "pipeline"
    /\ Val(lastSnapshotWrite).taken
    /\ SnapshotAt(repo_snapshots, Val(lastSnapshotWrite).row.repo_id,
                  Val(lastSnapshotWrite).row.snapshot_date)
         # Some(Val(lastSnapshotWrite).row)

\* C7: a snapshot row is append-only: no step of the pipeline or of the light
\* snapshot job changes or removes a row the table holds.
SnapshotsAppendOnly ==
    [][ \A i \in 1 .. Len(repo_snapshots) :
          /\ i <= Len(repo_snapshots')
          /\ repo_snapshots'[i] = repo_snapshots[i] ]_vars

\* The light snapshot job has offered a row for a key that was taken, with
\* other values than the stored row's.
LightRewriteReached ==
    /\ lastSnapshotWrite # None
    /\ Val(lastSnapshotWrite).by = "light"
    /\ Val(lastSnapshotWrite).taken
    /\ SnapshotAt(repo_snapshots, Val(lastSnapshotWrite).row.repo_id,
                  Val(lastSnapshotWrite).row.snapshot_date)
         # Some(Val(lastSnapshotWrite).row)

-----------------------------------------------------------------------------
(* Properties of discovery (SpecDiscovery) *)

\* The strategies run so far that returned the id.
Sightings(id) ==
    { k \in 1 .. Len(returned) :
        \E i \in 1 .. Len(returned[k].repos) : returned[k].repos[i].github_id = id }

\* The metadata strategy k returned for the id.
SightingAt(k, id) ==
    LET found == returned[k].repos
    IN  found[CHOOSE i \in 1 .. Len(found) : found[i].github_id = id]

FirstSighting(id) ==
    SightingAt(CHOOSE k \in Sightings(id) : \A j \in Sightings(id) : k <= j, id)

Entries(id) == { i \in 1 .. Len(discovered) : discovered[i].github_id = id }

\* C5: the strategies run in the fixed order (the category searches in
\* CATEGORY_SLUGS order, then mid-tier, then newborn), every github_id a
\* strategy returned is in the merged candidate map exactly once, with the
\* metadata of the first strategy that returned it, and no other id is.
FirstSeenWins ==
    /\ \A k \in 1 .. Len(returned) : returned[k].strategy = StrategyOrder[k]
    /\ \A id \in Ids :
         IF Sightings(id) = {} THEN Entries(id) = {}
         ELSE /\ Cardinality(Entries(id)) = 1
              /\ \A i \in Entries(id) : discovered[i] = FirstSighting(id)

\* Discovery is complete and an id was returned by a category search and,
\* with other metadata, by a later strategy.
SeenTwiceReached ==
    /\ strategy = NumStrategies
    /\ \E id \in Ids : \E k1, k2 \in Sightings(id) :
         /\ k1 <= NumCategories /\ k1 < k2
         /\ \A j \in Sightings(id) : k1 <= j
         /\ SightingAt(k1, id) # SightingAt(k2, id)

-----------------------------------------------------------------------------
(* Properties of the archive ingestion (SpecArchive) *)

\* The hour failed outright: no download, or a stream that ends in an error.
FailsOutright(src) == src.fetch # "body" \/ StreamErrors(src)

\* The hour yields no line at all: the fetch throws, the status is not a
\* success, the body is missing, or the payload is empty.
ZeroUsableLines(src) ==
    \/ src.fetch # "body"
    \/ src.lines = <<>> /\ src.ending \in {"eof", "zero_bytes"}

\* C8: an hour that fails outright, a decompression error and a network error
\* in mid-stream included, is skipped: the job is not aborted and the loop is
\* at the next hour.
BadHourIsSkipped ==
    (lastHour # None /\ FailsOutright(Val(lastHour).source))
        => (ingest # "aborted" /\ hour > Val(lastHour).hour)

\* C9: an hour that yields zero usable lines does not end the job and leaves
\* the counter map as it was before the hour.
EmptyHourIsHarmless ==
    (lastHour # None /\ ZeroUsableLines(Val(lastHour).source))
        => (ingest # "aborted" /\ starCounts = Val(lastHour).before)

\* The WatchEvent lines for a repository among the lines the loop was handed.
WatchEvents(id) ==
    Cardinality({ hk \in UNION { { <<h, k>> : k \in 1 .. Len(streamed[h]) } :
                                   h \in 1 .. Len(streamed) } :
                    streamed[hk[1]][hk[2]] = [kind |-> "WatchEvent", repo |-> id] })

\* C26: a repository's counter is the number of WatchEvent lines carrying its
\* id (lines of other kinds and undecodable lines count nowhere), and after
\* the ingestion a repository is qualified exactly if that number is at
\* least 5.
QualifiedIffFiveWatchEvents ==
    /\ \A id \in Ids : starCounts[id] = WatchEvents(id)
    /\ ingest = "aggregated" =>
           qualified = { id \in Ids : WatchEvents(id) >= QualifyingStars }

\* The day is aggregated with a repository at exactly 5 WatchEvents, which is
\* qualified, and a line that counted for no qualified repository.
ExactlyFiveQualifiesReached ==
    /\ ingest = "aggregated"
    /\ \E id \in qualified : WatchEvents(id) = QualifyingStars
    /\ \E h \in 1 .. Len(streamed) : \E k \in 1 .. Len(streamed[h]) :
          streamed[h][k].kind # "WatchEvent" \/ streamed[h][k].repo \notin qualified

\* C25: while a refused write has not been drained, nothing more is read from
\* the network and the bytes held stay within one chunk above the
\* highWaterMark; the push stage waits only while a drain is due; the loop
\* leaves an hour only when its push stage has finished.
BackpressureHolds ==
    /\ [](pusher = "waitDrain" => (needDrain /\ buffered # <<>>))
    /\ [](BufferedLength(buffered) < HighWaterMark + 2)
    /\ [][needDrain => chunksLeft' >= chunksLeft]_vars
    /\ [][hour' # hour => pusher \in {"idle", "done"}]_vars

\* After a refused write and its drain the push stage read the body to its
\* end, and the loop went on to the next hour.
ResumedAfterDrainReached ==
    /\ hour > 0 /\ pusher = "idle" /\ drains > 0
    /\ chunksLeft = 0 /\ ingest = "running"

-----------------------------------------------------------------------------
(* Properties of failing discovery (SpecDiscovery) *)

\* The strategies run so far that threw.
ThrownLayers == { k \in 1 .. Len(returned) : returned[k].threw }

\* C11: a discovery strategy that throws contributes no candidate, is counted
\* as one error and stops nothing: every strategy runs, the candidates of the
\* strategies that returned are in the map, and processing takes the map.
StrategyFailureIsolated ==
    /\ Len(returned) = strategy
    /\ totalErrors = Cardinality(ThrownLayers)
    /\ \A k \in ThrownLayers : returned[k].repos = <<>>
    /\ \A id \in Ids : Sightings(id) # {} => Entries(id) # {}
    /\ queue # None => ( /\ Len(returned) = NumStrategies
                         /\ queue = Some(discovered) )

\* Processing has begun after a category search threw and a later strategy
\* returned candidates.
FailedStrategyPassedReached ==
    /\ queue # None /\ queue # Some(<<>>)
    /\ \E k \in ThrownLayers : k <= NumCategories /\ \E id \in Ids :
          \E j \in Sightings(id) : j > k

\* C12: a failing search request cancels only itself: the candidates the other
\* requests of the strategy were answered with are returned by the strategy.
QueryFailureIsolated ==
    \A k \in 1 .. Len(returned) :
        \A id \in returned[k].answered :
            \E i \in 1 .. Len(returned[k].repos) : returned[k].repos[i].github_id = id

-----------------------------------------------------------------------------
(* Properties of the fetch loop of the light snapshot job (SpecFetchLoop) *)

\* The fixed cooldown of a quota exhaustion that names no reset time.
FallbackCooldown == 60

\* C13: after a response that reports a remaining quota below the floor and
\* a reset time, no request is issued before the reset time plus 5 seconds.
WaitsForReset ==
    /\ clock >= notBefore
    /\ lastIter # None => Val(lastIter).issuedAt >= Val(lastIter).mustWait

\* A request was issued exactly at the reset time plus 5 seconds a low-quota
\* response had reported.
WaitedForResetReached ==
    /\ lastIter # None
    /\ Val(lastIter).mustWait > 0
    /\ Val(lastIter).issuedAt = Val(lastIter).mustWait

\* C14: a 403 response without the remaining and reset headers makes the loop
\* wait the fixed cooldown and retry the same request, once.
CooldownAndRetryOnce ==
    ( /\ lastIter # None
      /\ Val(lastIter).response.status = 403
      /\ Val(lastIter).response.remaining = None
      /\ Val(lastIter).response.reset = None )
        => IF Val(lastIter).attempt = 1
           THEN /\ Val(lastIter).next = Val(lastIter).index
                /\ Val(lastIter).doneAt >= Val(lastIter).issuedAt + FallbackCooldown
           ELSE Val(lastIter).next = Val(lastIter).index + 1

\* C24: a request answered with quota exhaustion is retried at most twice, so
\* no repository is requested more than three times in a row.
QuotaRetriesBounded ==
    lastIter # None => Val(lastIter).attempt <= 3

\* C15: without GITHUB_TOKEN the job issues no request.
NoTokenNoRequest ==
    ~githubToken => (requests = 0 /\ lastIter = None)

-----------------------------------------------------------------------------
(* Relational properties of calculateScore (SpecScore) *)

\* The score of the record under evaluation with one field replaced.
ScoreWithStars7d(s) == calculateScore([inputs EXCEPT !.stars_7d = s]).score
ScoreWithContributors(c) == calculateScore([inputs EXCEPT !.contributors = c]).score

\* C16 (as stated): of two records that differ only in stars_7d, the one with
\* the larger stars_7d has a score greater than or equal to the other's.
StarVelocityMonotone ==
    result # NoResult =>
        \A s \in Stars7dVals :
            s >= inputs.stars_7d => ScoreWithStars7d(s) >= result.score

\* The commit count from which no star-spike rule of the penalty can fire.
ActiveCommits == 5

\* C16 (amended): of two records with at least five commits in 30 days that
\* differ only in stars_7d, the one with the larger stars_7d has a score greater
\* than or equal to the other's.
StarVelocityMonotoneWhenActive ==
    (result # NoResult /\ inputs.commits_30d >= ActiveCommits) =>
        \A s \in Stars7dVals :
            s >= inputs.stars_7d => ScoreWithStars7d(s) >= result.score

\* An active record was scored across the spike thresholds, and the larger
\* star gain scores strictly higher.
ActiveSpikeScoresHigherReached ==
    /\ result # NoResult
    /\ inputs.commits_30d >= ActiveCommits
    /\ inputs.stars_7d = 101
    /\ ScoreWithStars7d(600) > result.score

\* C17: a record with stars_7d = 600 and no commits has a penalty and a score
\* strictly below that of the same record with stars_7d of at most 100.
SpikeScoresLower ==
    (result # NoResult /\ inputs.stars_7d = 600 /\ inputs.commits_30d = 0) =>
        /\ result.breakdown.manipulation_penalty > 0
        /\ \A s \in { v \in Stars7dVals : v <= 100 } :
              result.score < ScoreWithStars7d(s)

\* C18: the early-rocket record scores above 70.
EarlyRocketAbove70 ==
    (result # NoResult /\ inputs = EarlyRocket) => result.score > 70

\* C19: of two records with the same positive stars that differ only in
\* contributors, the one with more contributors has a score greater than or
\* equal to the other's.
ContributorRatioMonotone ==
    (result # NoResult /\ inputs.stars > 0) =>
        \A c \in ContributorsVals :
            c >= inputs.contributors => ScoreWithContributors(c) >= result.score

\* A record with positive stars was scored, and more contributors score higher.
MoreContributorsScoreHigherReached ==
    /\ result # NoResult /\ inputs.stars > 0 /\ result.score > 0
    /\ \E c \in ContributorsVals :
          c > inputs.contributors /\ ScoreWithContributors(c) > result.score

\* C20: a record with stars_7d of at most 200, at least 2 contributors and
\* nonzero commits_30d has no manipulation penalty.
LegitimateRepoUnpenalised ==
    ( /\ result # NoResult
      /\ inputs.stars_7d <= 200 /\ inputs.contributors >= 2
      /\ inputs.commits_30d > 0 )
        => result.breakdown.manipulation_penalty = 0

\* A large repository at the limits (stars_7d 200, 2 contributors, 1 commit)
\* was scored without penalty.
LegitimateEdgeReached ==
    /\ result # NoResult /\ inputs = ModerateRepo
    /\ result.breakdown.manipulation_penalty = 0

\* The record with no stars, no activity, no mentions and no history.
ZeroRecord ==
    [ stars |-> 0, stars_7d |-> 0, stars_30d |-> 0, contributors |-> 0,
      forks |-> 0, hn_mentions_7d |-> 0, hn_mentions_30d |-> 0,
      commits_30d |-> 0,
      stars_7d_prev |-> None, forks_7d |-> None, forks_7d_prev |-> None ]

\* C21: all-zero metrics without acceleration inputs yield score exactly 0 and
\* penalty 0.
ZeroRecordScoresZero ==
    (result # NoResult /\ inputs = ZeroRecord) =>
        /\ result.score = 0
        /\ result.breakdown.manipulation_penalty = 0

\* The all-zero record was scored.
ZeroRecordScoredReached ==
    /\ result # NoResult /\ inputs = ZeroRecord
    /\ result.breakdown.final_score = 0

\* The deduction of the commit-spike rules: at most one of them applies.
SpikeRule(in) ==
    IF in.stars_7d > 500 /\ in.commits_30d < 5 THEN 20
    ELSE IF in.stars_7d > 200 /\ in.commits_30d < 2 THEN 15
    ELSE IF in.stars_7d > 100 /\ in.commits_30d = 0 THEN 10
    ELSE 0

\* The deduction of the contributor rules: at most one of them applies.
ContributorRule(in) ==
    IF in.stars > 1000 /\ in.contributors < 2 THEN 10
    ELSE IF in.stars > 500 /\ in.contributors < 2 THEN 5
    ELSE 0

\* C22: the penalty is the sum of at most one commit-spike rule and at most one
\* contributor rule, lies in 0..30, and is nonzero for every record with more
\* than 1,000 stars and exactly 1 contributor.
PenaltyIsSumOfRules ==
    result # NoResult =>
        /\ result.breakdown.manipulation_penalty
              = SpikeRule(inputs) + ContributorRule(inputs)
        /\ result.breakdown.manipulation_penalty \in 0 .. 30
        /\ (inputs.stars > 1000 /\ inputs.contributors = 1)
              => result.breakdown.manipulation_penalty > 0

\* A record with more than 1,000 stars, one contributor and a star spike was
\* scored, and both rules count.
BothRulesAddReached ==
    /\ result # NoResult
    /\ inputs.stars > 1000 /\ inputs.contributors = 1
    /\ inputs.stars_7d > 500 /\ inputs.commits_30d = 0
    /\ result.breakdown.manipulation_penalty = 30

\* This week's value is strictly greater than a positive previous value.
Growing(current_7d, prev_7d) ==
    /\ ~IsNone(current_7d) /\ ~IsNone(prev_7d)
    /\ Val(prev_7d) > 0 /\ Val(current_7d) > Val(prev_7d)

\* C23: an acceleration sub-score is positive only when this week's value is
\* strictly greater than a positive previous week's value; otherwise it is
\* exactly 0; it is never negative.
AccelerationOnlyWhenGrowing ==
    result # NoResult =>
        LET star == calcAcceleration(Some(inputs.stars_7d), inputs.stars_7d_prev)
            fork == calcAcceleration(inputs.forks_7d, inputs.forks_7d_prev)
        IN  /\ star >= 0 /\ fork >= 0
            /\ result.breakdown.star_acceleration_score >= 0
            /\ result.breakdown.fork_acceleration_score >= 0
            /\ ~Growing(Some(inputs.stars_7d), inputs.stars_7d_prev)
                  => (star = 0 /\ result.breakdown.star_acceleration_score = 0)
            /\ ~Growing(inputs.forks_7d, inputs.forks_7d_prev)
                  => (fork = 0 /\ result.breakdown.fork_acceleration_score = 0)

\* A record with flat star growth and decelerating fork growth was scored.
FlatAndDeceleratingReached ==
    /\ result # NoResult
    /\ inputs.stars_7d = 40 /\ inputs.stars_7d_prev = Some(40)
    /\ inputs.forks_7d = Some(40) /\ inputs.forks_7d_prev = Some(100)
    /\ result.breakdown.star_acceleration_score = 0
    /\ result.breakdown.fork_acceleration_score = 0


-----------------------------------------------------------------------------
(* Properties of the library calls (SpecStarVelocity, SpecCommitFrequency) *)

\* The positions, in the stargazer list, of the entries on the most recent
\* (at most three) pages.
RecentEntries(c) ==
    { i \in 1 .. Len(c.stargazers) : i > (startPage(c.totalStars) - 1) * PerPage }

\* C27: unless a request fails, getStarVelocity returns as stars_30d and
\* stars_7d the number of entries on the most recent (at most three) pages
\* that starred within the last 30 and 7 days, and stars_7d <= stars_30d.
StarVelocityCountsWindows ==
    (answer # None /\ Val(call).fn = "getStarVelocity" /\ ~Val(answer).threw) =>
        LET c == Val(call)
        IN  /\ Val(answer).stars_30d
                  = Cardinality({ i \in RecentEntries(c) : c.stargazers[i] <= ThirtyDays })
            /\ Val(answer).stars_7d
                  = Cardinality({ i \in RecentEntries(c) : c.stargazers[i] <= SevenDays })
            /\ Val(answer).stars_7d <= Val(answer).stars_30d

\* The response that decides what getCommitFrequency returns.
DecidingResponse(c) == IF c.first.status = 202 THEN c.second ELSE c.first

\* C28: getCommitFrequency issues at most two requests: the second exactly
\* when the first answers 202, after the delay, and never a third; a
\* response that is no success, or an exception, on either attempt yields 0.
CommitFrequencyRetriesOnce ==
    (answer # None /\ Val(call).fn = "getCommitFrequency") =>
        LET c == Val(call)
            a == Val(answer)
        IN  /\ a.requests <= 2
            /\ a.requests = (IF c.first.status = 202 THEN 2 ELSE 1)
            /\ a.waited = (IF a.requests = 2 THEN RetryDelay ELSE 0)
            /\ ( \/ ~responseOk(DecidingResponse(c))
                 \/ DecidingResponse(c).body.json = "invalid" ) => a.value = 0

\* A first answer of 202 was retried, and the retry delivered the commits.
RetriedOnceReached ==
    /\ answer # None /\ Val(call).fn = "getCommitFrequency"
    /\ Val(call).first.status = 202 /\ Val(call).second.status = 200
    /\ Val(answer).requests = 2 /\ Val(answer).value > 0

-----------------------------------------------------------------------------
(* Properties of the tool scan (SpecToolScan) *)

\* C29: a repository that a run scanned, recording tool contributions, is
\* not scanned again by a later run of the same month without --force, and
\* is scanned again by one with --force.
NoRescanWithinMonth ==
    \A i, j \in 1 .. Len(scanLog) :
        ( /\ scanLog[i].run < scanLog[j].run
          /\ scanLog[i].repo = scanLog[j].repo
          /\ scanLog[i].did = "scanned" /\ scanLog[i].recorded # {}
          /\ scanLog[j].did # "upsert_failed" )
            => scanLog[j].did = (IF scanLog[j].forceRescan THEN "scanned" ELSE "skipped")

-----------------------------------------------------------------------------
(* Properties of a failing repository upsert (Spec) *)

\* C30: a pass whose repository upsert fails writes no enrichment, no tool
\* contribution and no snapshot, and the loop goes on with the next
\* candidate; every enrichment and snapshot row belongs to a repository
\* whose upsert succeeded.
UpsertFailureWritesNothing ==
    /\ [][ (lastPass = None /\ lastPass' # None /\ Val(lastPass').repoError)
              => (UNCHANGED storeVars /\ pending' = None) ]_vars
    /\ [][ (lastPass # None /\ Val(lastPass).repoError /\ lastPass' = None)
              => (UNCHANGED storeVars /\ queue' = Some(Tail(Val(queue)))) ]_vars
    /\ [](\A id \in Ids : enrichments[id] # None => repos[id] # None)
    /\ [](\A k \in 1 .. Len(repo_snapshots) : repos[repo_snapshots[k].repo_id] # None)

\* The upsert of a candidate failed while another candidate waits in the
\* queue, and the store holds nothing for the failed one.
UpsertFailedPassReached ==
    /\ lastPass # None /\ Val(lastPass).repoError
    /\ Val(lastPass).outcome = "upsert_failed"
    /\ Len(Val(queue)) > 1
    /\ repos[Val(lastPass).github_id] = None
    /\ enrichments[Val(lastPass).github_id] = None

=============================================================================
